---- MODULE Spec2Model ----
(***************************************************************************)
(* A model of cp4i-operators-installer.py: the `deploy` command.           *)
(*                                                                         *)
(* The state is the operator registry (the Operators singleton's map, an   *)
(* insertion-ordered dict), the command-line arguments, the working        *)
(* directory's manifest files, the commands run against the cluster, and   *)
(* the position of the single thread of control inside deploy.  External   *)
(* collaborators (the documentation pages, oc-ibm_pak, oc, the user at the *)
(* prompt) are nondeterministic inputs of the action that calls them.      *)
(***************************************************************************)
EXTENDS Naturals, Sequences, FiniteSets, TLC

VARIABLES
    pc,               \* position of the thread of control inside deploy
    selection,        \* deploy's `operator` argument (the -o values, in order)
    version,          \* --version
    list,             \* --list
    namespaced,       \* --namespaced
    target_ns,        \* --target_ns
    non_interactive,  \* Utils.non_interactive
    registry,         \* Operators()._map: a sequence of Operator records, dict order
    error,            \* the name reported by the exception filter() raised, or NoneVal
    catsrc_ns,        \* deploy's catsrc_ns, once computed
    fetched,          \* history: case names passed to oc-ibm_pak, in call order
    found_ns,         \* history: the namespaces `oc get ns` found
    mirror,           \* the files under .ibm-pak: path -> lines
    catalog_sources,  \* download_and_prepare's local list of declared names
    batch,            \* which run_commands call is at its prompt
    oc_commands,      \* the argument of that run_commands call
    planned,          \* history: the argument of each run_commands call so far
    gates,            \* history: the answer each run_commands call got
    executed,         \* history: the commands run_commands passed to the shell, in order
    proc,             \* <<exit code>> of the last command run_commands ran
    files,            \* manifest files in the working directory: name -> content
    exit_code         \* the process's exit status, once it has exited

vars == <<pc, selection, version, list, namespaced, target_ns, non_interactive,
          registry, error, catsrc_ns, fetched, found_ns, mirror, catalog_sources,
          batch, oc_commands, planned, gates, executed, proc, files, exit_code>>

----------------------------------------------------------------------------
(* Bounds of the model.                                                    *)

\* operators the documentation pages list for one version, at most
MaxOps == 2

----------------------------------------------------------------------------
(* Values.                                                                 *)

NoneVal == "None"

\* literal names (metadata.name of the documented Subscriptions)
LiteralNames ==
    {"ibm-apiconnect", "datapower-operator", "ibm-eventstreams",
     "ibm-eem-operator", "ibm-mq"}

\* a -o value that is no operator of any version
UnknownName == "no-such-operator"

Versions == {"16.1.0", "2024.4"}

TargetNamespaces == {"openshift-operators", "cp4i"}

\* what `oc get ns`, a shell command or oc-ibm_pak return
ExitCodes == {0, 1}

\* catalog-sources files os.walk finds under one CASE's mirror directory
FilesFound == {0, 1}

Range(s) == {s[i] : i \in 1..Len(s)}

\* sequences over S without repetition, of length at most n
RECURSIVE InjSeqs(_, _)
InjSeqs(S, n) ==
    IF n = 0 THEN {<<>>}
    ELSE {<<>>} \cup
         UNION {{<<x>> \o t : t \in InjSeqs(S \ {x}, n - 1)} : x \in S}

\* the subsequences of s of length at most n
RECURSIVE SubSeqs(_, _)
SubSeqs(s, n) ==
    IF s = <<>> \/ n = 0 THEN {<<>>}
    ELSE SubSeqs(Tail(s), n) \cup
         {<<Head(s)>> \o t : t \in SubSeqs(Tail(s), n - 1)}

----------------------------------------------------------------------------
(* The Operator class and the insertion-ordered dict.                      *)

\* the CASE name set_command() extracts from the documented export command
CaseName(name) ==
    CASE name = "datapower-operator" -> "ibm-datapower-operator"
      [] name = "ibm-eem-operator"   -> "ibm-eventendpointmanagement"
      [] OTHER                       -> name

\* an Operator after populate(): channel and catsrc_name come from the
\* documented Subscription's spec (None when the field is missing)
Operator(name, channel, source) ==
    [literal_name |-> name, channel |-> channel, catsrc_name |-> source,
     case_name |-> CaseName(name), catsrc_files |-> <<>>]

Keys(map) == {map[i].literal_name : i \in 1..Len(map)}

KeySeq(map) == [i \in 1..Len(map) |-> map[i].literal_name]

\* dict.get(name): the record, or NoneVal
Get(map, name) ==
    IF name \in Keys(map)
    THEN map[CHOOSE i \in 1..Len(map) : map[i].literal_name = name]
    ELSE NoneVal

\* dict[name] = op: an existing key keeps its place, a new key goes last
Put(map, name, op) ==
    IF name \in Keys(map)
    THEN [i \in 1..Len(map) |-> IF map[i].literal_name = name THEN op ELSE map[i]]
    ELSE Append(map, op)

\* dict.pop(name, None)
Pop(map, name) == SelectSeq(map, LAMBDA op : op.literal_name # name)

----------------------------------------------------------------------------
(* OperatorHandler.filter.                                                 *)

\* the first name of the selection that is no key of the map (line 162 raises
\* for it), or NoneVal
FirstUnknown(map, sel) ==
    IF \E i \in 1..Len(sel) : sel[i] \notin Keys(map)
    THEN sel[CHOOSE i \in 1..Len(sel) :
                 /\ sel[i] \notin Keys(map)
                 /\ \A j \in 1..(i - 1) : sel[j] \in Keys(map)]
    ELSE NoneVal

\* filtered_operators as the loop of lines 159-163 builds it
RECURSIVE Pick(_, _, _)
Pick(map, sel, acc) ==
    IF sel = <<>> THEN acc
    ELSE Pick(map, Tail(sel), Put(acc, Head(sel), Get(map, Head(sel))))

\* whether filter() raises: 'all' switches the lookup of the names off
FilterRaises(map, sel) ==
    /\ "all" \notin Range(sel)
    /\ FirstUnknown(map, sel) # NoneVal

\* a filter that keeps the order of the resolved map
Selected_ResolvedOrder(map, sel) ==
    IF "all" \in Range(sel) THEN map
    ELSE SelectSeq(map, LAMBDA op : op.literal_name \in Range(sel))

\* the map after lines 156-164
Selected(map, sel) ==
    IF "all" \in Range(sel) THEN map ELSE Pick(map, sel, <<>>)

\* exclusions that do not look at what else was selected
Exclude_Unconditional(map) ==
    Pop(Pop(map, "datapower-operator"), "ibm-eem-operator")

\* lines 166-170: datapower comes with ibm-apiconnect, ibm-eem-operator with
\* ibm-eventstreams
Exclude(map) ==
    LET m1 == IF "ibm-apiconnect" \in Keys(map)
              THEN Pop(map, "datapower-operator") ELSE map
    IN IF "ibm-eventstreams" \in Keys(m1)
       THEN Pop(m1, "ibm-eem-operator") ELSE m1

\* the registry filter() leaves when it does not raise
Filtered(map, sel) == Exclude(Selected(map, sel))

----------------------------------------------------------------------------
(* Files and commands.                                                     *)

CatsrcNamespaceDefault == "openshift-marketplace"

AllNamespaces == "openshift-operators"

\* spec.source of the documented Subscription of an operator
DocSource(name) == CaseName(name) \o "-catalog"

\* metadata.name of the CatalogSource a CASE's catalog-sources file declares
DeclaredName(case) == case \o "-catalog"

\* the catalog-sources file oc-ibm_pak leaves under the CASE's mirror directory
CatsrcPath(case) == ".ibm-pak/data/mirror/" \o case \o "/catalog-sources.yaml"

\* its lines as downloaded: key and value of each `key: value` line
CatsrcLines(case) ==
    << [key |-> "kind", value |-> "CatalogSource"],
       [key |-> "name", value |-> DeclaredName(case)],
       [key |-> "namespace", value |-> CatsrcNamespaceDefault],
       [key |-> "image", value |-> "icr.io/cpopen/" \o case] >>

\* lines 210-213: the lines fileinput writes back
StripNamespace(lines) == SelectSeq(lines, LAMBDA l : l.key # "namespace")

\* lines 215-216: the names the scan of one file appends to catalog_sources
NamesIn(lines) ==
    LET named == SelectSeq(lines, LAMBDA l : l.key = "name")
    IN [i \in 1..Len(named) |-> named[i].value]

SubscriptionFile(name) == "subscription-" \o name \o ".yaml"

OperatorGroupFile(ns) == "operatorgroup-" \o ns \o ".yaml"

\* lines 232-241
SubscriptionManifest(op, ns) ==
    [kind |-> "Subscription", name |-> op.literal_name, channel |-> op.channel,
     source |-> op.catsrc_name, sourceNamespace |-> ns]

\* lines 263-271
OperatorGroupManifest(ns) ==
    [kind |-> "OperatorGroup", name |-> "ibm-integration-operatorgroup",
     namespace |-> ns, targetNamespaces |-> <<ns>>]

\* the open(..., 'w') that never reaches the disk
WriteFile_Skip(fs, name, content) == fs

\* open(filename, 'w') and write
WriteFile(fs, name, content) ==
    {f \in fs : f.name # name} \cup {[name |-> name, content |-> content]}

FileNames(fs) == {f.name : f \in fs}

\* 'oc new-project <ns>'
NewProject(ns) == [verb |-> "new-project", ns |-> ns, file |-> NoneVal]

\* 'oc apply -n <ns> -f <file>'
Apply(ns, file) == [verb |-> "apply", ns |-> ns, file |-> file]

\* the run_commands calls of one run, in call order
Batches == <<"namespaces", "operatorgroup", "catalog_sources", "subscriptions">>

NoGates == [b \in Range(Batches) |-> "-"]

NoPlans == [b \in Range(Batches) |-> <<>>]

----------------------------------------------------------------------------
(* Initial state: the command line is parsed, nothing has run.             *)

\* the -o values of one command line: the default, one name, two names (in
\* either order, or one name twice), and 'all' beside another name
Selections ==
    {<<"all">>, <<"all", UnknownName>>, <<UnknownName, "all">>}
    \cup {<<n>> : n \in LiteralNames \cup {UnknownName}}
    \cup {<<n, m>> : n, m \in LiteralNames \cup {UnknownName}}

\* the order in which the documentation lists the operators
DocOrder ==
    <<"datapower-operator", "ibm-apiconnect", "ibm-eventstreams",
      "ibm-eem-operator", "ibm-mq">>

\* the operators the documentation of one version lists
Documented == SubSeqs(DocOrder, MaxOps)

\* versions populate() refuses: version.startswith('202')
Versions202 == {"2024.4"}

\* the channel the documentation gives an operator
Channel(name) == "v1"

InitWith(sels) ==
    /\ pc = "populate"
    /\ selection \in sels
    /\ version \in Versions
    /\ list \in BOOLEAN
    /\ namespaced \in BOOLEAN
    /\ target_ns \in TargetNamespaces
    /\ non_interactive \in BOOLEAN
    /\ registry = <<>>
    /\ error = NoneVal
    /\ catsrc_ns = NoneVal
    /\ fetched = <<>>
    /\ found_ns = {}
    /\ mirror = {}
    /\ catalog_sources = <<>>
    /\ batch = NoneVal
    /\ oc_commands = <<>>
    /\ planned = NoPlans
    /\ gates = NoGates
    /\ executed = <<>>
    /\ proc = <<>>
    /\ files = {}
    /\ exit_code = NoneVal

Init == InitWith(Selections)

\* sys.exit(code)
Exit(code) ==
    /\ pc' = "exit"
    /\ exit_code' = code

----------------------------------------------------------------------------
(* deploy, up to the ENTER prompt.                                         *)

\* OperatorHandler.populate: the documentation pages are the input.  At most
\* one documented Subscription lacks spec.channel.
Populate ==
    /\ pc = "populate"
    /\ \/ /\ version \in Versions202
          /\ Exit(1)
          /\ UNCHANGED registry
       \/ /\ version \notin Versions202
          /\ Exit(1)              \* a request or the parse raised
          /\ UNCHANGED registry
       \/ /\ version \notin Versions202
          /\ \E names \in Documented :
             \E nochannel \in {{}} \cup {{n} : n \in Range(names)} :
                /\ registry' =
                      [i \in 1..Len(names) |->
                          Operator(names[i],
                                   IF names[i] \in nochannel
                                   THEN NoneVal ELSE Channel(names[i]),
                                   DocSource(names[i]))]
          /\ pc' = "filter"
          /\ UNCHANGED exit_code
    /\ UNCHANGED <<selection, version, list, namespaced, target_ns,
                   non_interactive, error, catsrc_ns, fetched, found_ns, mirror,
                   catalog_sources, batch, oc_commands, planned, gates,
                   executed, proc, files>>

\* --list: print the operators and exit
List ==
    /\ pc = "filter"
    /\ list
    /\ Exit(0)
    /\ UNCHANGED <<selection, version, list, namespaced, target_ns,
                   non_interactive, registry, error, catsrc_ns,
                   fetched, found_ns, mirror, catalog_sources, batch, oc_commands,
                   planned, gates, executed, proc, files>>

\* operator_handler.filter(operator); an exception ends deploy with status 1
Filter ==
    /\ pc = "filter"
    /\ ~list
    /\ IF FilterRaises(registry, selection)
       THEN /\ error' = FirstUnknown(registry, selection)
            /\ Exit(1)
            /\ UNCHANGED registry
       ELSE /\ registry' = Filtered(registry, selection)
            /\ pc' = "plan"
            /\ UNCHANGED <<error, exit_code>>
    /\ UNCHANGED <<selection, version, list, namespaced, target_ns,
                   non_interactive, catsrc_ns, fetched, found_ns, mirror,
                   catalog_sources, batch, oc_commands, planned, gates,
                   executed, proc, files>>

\* lines 358-370: choose the catalog-source namespace, refuse --namespaced
\* without --target_ns, print the plan
Plan ==
    /\ pc = "plan"
    /\ catsrc_ns' = IF namespaced THEN target_ns ELSE CatsrcNamespaceDefault
    /\ IF catsrc_ns' = AllNamespaces
       THEN Exit(2)
       ELSE /\ pc' = IF non_interactive THEN "sanity" ELSE "confirm"
            /\ UNCHANGED exit_code
    /\ UNCHANGED <<selection, version, list, namespaced, target_ns,
                   non_interactive, registry, error, fetched, found_ns, mirror,
                   catalog_sources, batch, oc_commands, planned, gates,
                   executed, proc, files>>

\* 'ENTER to continue': the user presses ENTER
Confirm ==
    /\ pc = "confirm"
    /\ pc' = "sanity"
    /\ UNCHANGED <<selection, version, list, namespaced, target_ns,
                   non_interactive, registry, error, catsrc_ns,
                   fetched, found_ns, mirror, catalog_sources, batch, oc_commands,
                   planned, gates, executed, proc, files, exit_code>>

\* Ctrl-C at a prompt
Abort ==
    /\ pc \in {"confirm", "gate"}
    /\ ~non_interactive
    /\ Exit(1)
    /\ UNCHANGED <<selection, version, list, namespaced, target_ns,
                   non_interactive, registry, error, catsrc_ns,
                   fetched, found_ns, mirror, catalog_sources, batch, oc_commands,
                   planned, gates, executed, proc, files>>

\* Utils.sanity_check: oc missing or not logged in, or the download of
\* oc-ibm_pak failing, raises
SanityCheck ==
    /\ pc = "sanity"
    /\ \/ /\ pc' = "download"
          /\ UNCHANGED exit_code
       \/ Exit(1)
    /\ UNCHANGED <<selection, version, list, namespaced, target_ns,
                   non_interactive, registry, error, catsrc_ns,
                   fetched, found_ns, mirror, catalog_sources, batch, oc_commands,
                   planned, gates, executed, proc, files>>

----------------------------------------------------------------------------
(* SubscriptionHandler and Utils.run_commands.                             *)

\* the catsrc_files os.walk finds for an operator of which oc-ibm_pak left
\* `found` catalog-sources files
CatsrcFiles(op, found) ==
    IF found = 0 THEN <<>> ELSE <<CatsrcPath(op.case_name)>>

\* download_and_prepare: one oc-ibm_pak call per operator, in map order; its
\* exit code is not read.  Each file found is rewritten without its
\* namespace lines and its names are collected in the local list, which is
\* emptied for every operator.
DownloadAndPrepare ==
    /\ pc = "download"
    /\ \E found \in [1..Len(registry) -> FilesFound] :
          /\ registry' =
                [i \in 1..Len(registry) |->
                    [registry[i] EXCEPT
                        !.catsrc_files = CatsrcFiles(registry[i], found[i])]]
          /\ mirror' =
                {[path |-> CatsrcPath(registry[i].case_name),
                  lines |-> StripNamespace(CatsrcLines(registry[i].case_name))] :
                    i \in {j \in 1..Len(registry) : found[j] # 0}}
          /\ catalog_sources' =
                IF registry = <<>> THEN catalog_sources
                ELSE IF found[Len(registry)] = 0 THEN <<>>
                ELSE NamesIn(CatsrcLines(registry[Len(registry)].case_name))
    /\ fetched' = [i \in 1..Len(registry) |-> registry[i].case_name]
    /\ pc' = "namespaces"
    /\ UNCHANGED <<selection, version, list, namespaced, target_ns,
                   non_interactive, error, catsrc_ns, found_ns, batch,
                   oc_commands, planned, gates, executed, proc, files,
                   exit_code>>

\* run_commands(cmds) is called: the commands are listed and, unless
\* non-interactive, the prompt is shown
Call(b, cmds) ==
    /\ batch' = b
    /\ oc_commands' = cmds
    /\ planned' = [planned EXCEPT ![b] = cmds]
    /\ pc' = "gate"

\* the orders list(set(namespaces)) can have
Orders(S) == {s \in InjSeqs(S, Cardinality(S)) : Len(s) = Cardinality(S)}

\* lines 253-259: the namespaces `oc get ns` does not find are created
HandleNamespaces ==
    /\ pc = "namespaces"
    /\ \E order \in Orders({catsrc_ns, target_ns}) :
       \E missing \in SUBSET {catsrc_ns, target_ns} :
          LET absent == SelectSeq(order, LAMBDA ns : ns \in missing)
              namespace_to_create ==
                  [i \in 1..Len(absent) |-> NewProject(absent[i])]
          IN /\ found_ns' = {catsrc_ns, target_ns} \ missing
             /\ IF namespace_to_create # <<>>
                THEN Call("namespaces", namespace_to_create)
                ELSE /\ pc' = "operatorgroup"
                     /\ UNCHANGED <<batch, oc_commands, planned>>
    /\ UNCHANGED <<selection, version, list, namespaced, target_ns,
                   non_interactive, registry, error, catsrc_ns,
                   fetched, mirror, catalog_sources, gates, executed, proc,
                   files, exit_code>>

\* lines 261-277: the OperatorGroup of a target namespace of its own
OperatorGroup ==
    /\ pc = "operatorgroup"
    /\ IF target_ns # AllNamespaces
       THEN /\ files' = WriteFile(files, OperatorGroupFile(target_ns),
                                  OperatorGroupManifest(target_ns))
            /\ Call("operatorgroup",
                    <<Apply(target_ns, OperatorGroupFile(target_ns))>>)
       ELSE /\ pc' = "catalog_sources"
            /\ UNCHANGED <<files, batch, oc_commands, planned>>
    /\ UNCHANGED <<selection, version, list, namespaced, target_ns,
                   non_interactive, registry, error, catsrc_ns,
                   fetched, found_ns, mirror, catalog_sources, gates, executed, proc,
                   exit_code>>

\* lines 222-225: one apply per catalog-sources file, operators in map order
RECURSIVE CatalogSourceCommands(_, _)
CatalogSourceCommands(map, ns) ==
    IF map = <<>> THEN <<>>
    ELSE [i \in 1..Len(Head(map).catsrc_files) |->
             Apply(ns, Head(map).catsrc_files[i])]
         \o CatalogSourceCommands(Tail(map), ns)

\* apply_catalog_sources after handle_namespaces
ApplyCatalogSources ==
    /\ pc = "catalog_sources"
    /\ Call("catalog_sources", CatalogSourceCommands(registry, catsrc_ns))
    /\ UNCHANGED <<selection, version, list, namespaced, target_ns,
                   non_interactive, registry, error, catsrc_ns,
                   fetched, found_ns, mirror, catalog_sources, gates, executed, proc,
                   files, exit_code>>

\* a command list that puts two operators' subscriptions last
SubscriptionCommands_MovedLast(map, ns) ==
    LET late == {"ibm-apiconnect", "ibm-eventstreams"}
        order == SelectSeq(map, LAMBDA op : op.literal_name \notin late)
                 \o SelectSeq(map, LAMBDA op : op.literal_name \in late)
    IN [i \in 1..Len(order) |->
           Apply(ns, SubscriptionFile(order[i].literal_name))]

\* lines 231-248: one apply per operator, in map order
SubscriptionCommands(map, ns) ==
    [i \in 1..Len(map) |-> Apply(ns, SubscriptionFile(map[i].literal_name))]

\* lines 231-247: the Subscription of every operator of the map is written
RECURSIVE WriteSubscriptions(_, _, _)
WriteSubscriptions(fs, map, ns) ==
    IF map = <<>> THEN fs
    ELSE WriteSubscriptions(
             WriteFile(fs, SubscriptionFile(Head(map).literal_name),
                       SubscriptionManifest(Head(map), ns)),
             Tail(map), ns)

\* apply_subscriptions up to its run_commands call
ApplySubscriptions ==
    /\ pc = "subscriptions"
    /\ files' = WriteSubscriptions(files, registry, catsrc_ns)
    /\ Call("subscriptions", SubscriptionCommands(registry, target_ns))
    /\ UNCHANGED <<selection, version, list, namespaced, target_ns,
                   non_interactive, registry, error, catsrc_ns,
                   fetched, found_ns, mirror, catalog_sources, gates, executed, proc,
                   exit_code>>

\* the answers that leave the prompt loop of lines 318-325
Answers == IF non_interactive THEN {"auto"} ELSE {"a", "c"}

\* a prompt loop that takes 'c' for a go-ahead
Declines_Never(answer) == FALSE

\* line 322: the answer that returns without running anything
Declines(answer) == answer = "c"

\* an exec loop that stops at the first command exiting non-zero
Ran_StopOnFailure(cmds, rcs) ==
    LET failed == {i \in 1..Len(cmds) : rcs[i] # 0}
    IN IF failed = {} THEN cmds
       ELSE SubSeq(cmds, 1, CHOOSE i \in failed : \A j \in failed : i <= j)

\* lines 327-331: the commands the loop passes to the shell when command i
\* exits with rcs[i]
Ran(cmds, rcs) == cmds

\* a deploy that applies the catalog sources before the OperatorGroup
Return_CatalogSourcesFirst(b) ==
    CASE b = "namespaces"      -> "catalog_sources"
      [] b = "catalog_sources" -> "operatorgroup"
      [] b = "operatorgroup"   -> "subscriptions"
      [] b = "subscriptions"   -> "exit"

\* where deploy goes on when the run_commands call of a batch returns
Return(b) ==
    CASE b = "namespaces"      -> "operatorgroup"
      [] b = "operatorgroup"   -> "catalog_sources"
      [] b = "catalog_sources" -> "subscriptions"
      [] b = "subscriptions"   -> "exit"

\* Utils.run_commands from its prompt on
RunCommands ==
    /\ pc = "gate"
    /\ \E answer \in Answers :
       \E rcs \in [1..Len(oc_commands) -> ExitCodes] :
          /\ gates' = [gates EXCEPT ![batch] = answer]
          /\ IF Declines(answer)
             THEN UNCHANGED <<executed, proc>>
             ELSE LET ran == Ran(oc_commands, rcs)
                  IN /\ executed' = executed \o ran
                     /\ proc' = IF ran = <<>> THEN proc ELSE <<rcs[Len(ran)]>>
    /\ pc' = Return(batch)
    /\ exit_code' = IF batch = "subscriptions" THEN 0 ELSE exit_code
    /\ UNCHANGED <<selection, version, list, namespaced, target_ns,
                   non_interactive, registry, error, catsrc_ns,
                   fetched, found_ns, mirror, catalog_sources, batch, oc_commands,
                   planned, files>>

Next ==
    \/ Populate
    \/ List
    \/ Filter
    \/ Plan
    \/ Confirm
    \/ Abort
    \/ SanityCheck
    \/ DownloadAndPrepare
    \/ HandleNamespaces
    \/ OperatorGroup
    \/ ApplyCatalogSources
    \/ ApplySubscriptions
    \/ RunCommands

Spec == Init /\ [][Next]_vars

----------------------------------------------------------------------------
(* Vocabulary of the properties.                                           *)

IsNewProject(c) == c.verb = "new-project"

IsOperatorGroupApply(c) ==
    /\ c.verb = "apply"
    /\ c.file \in {OperatorGroupFile(ns) : ns \in TargetNamespaces}

IsCatalogSourceApply(c) ==
    /\ c.verb = "apply"
    /\ c.file \in {CatsrcPath(CaseName(n)) : n \in LiteralNames}

IsSubscriptionApply(c) ==
    /\ c.verb = "apply"
    /\ c.file \in {SubscriptionFile(n) : n \in LiteralNames}

\* run_commands was told to go ahead with batch b
Accepted(b) == gates[b] \in {"a", "auto"}

\* the commands of the accepted batches so far, batch after batch
RECURSIVE AcceptedCommands(_)
AcceptedCommands(bs) ==
    IF bs = <<>> THEN <<>>
    ELSE (IF Accepted(Head(bs)) THEN planned[Head(bs)] ELSE <<>>)
         \o AcceptedCommands(Tail(bs))

\* the manifest files written for batch b
ManifestsOf(b) ==
    CASE b = "operatorgroup" -> {OperatorGroupFile(target_ns)}
      [] b = "subscriptions" ->
            {SubscriptionFile(registry[i].literal_name) : i \in 1..Len(registry)}
      [] OTHER -> {}

----------------------------------------------------------------------------
(* C1.  As claimed: in interactive mode a decline ('c') at a confirmation  *)
(* gate comes before any cluster-mutating command of the run, the whole    *)
(* action list being confirmed once.  The code asks once per batch, so a   *)
(* decline can follow the commands of an earlier, accepted batch.          *)

\* C1 as claimed: the step that declines at a gate finds nothing executed
C1_DeclineBeforeAnyCommand ==
    [][(pc = "gate" /\ ~non_interactive /\ gates'[batch] = "c")
          => executed = <<>>]_vars

\* C1 as amended: in interactive mode every executed command is a command
\* of a batch that was accepted ('a') at that batch's own gate, and was
\* executed by the step that accepted it
C1_ExecutedOnlyWhenAccepted ==
    /\ [](~non_interactive =>
            \A i \in 1..Len(executed) :
                \E b \in Range(Batches) :
                    /\ gates[b] = "a"
                    /\ executed[i] \in Range(planned[b]))
    /\ [][executed' # executed =>
            /\ pc = "gate"
            /\ gates[batch] = "-"
            /\ Accepted(batch)'
            /\ executed' = executed \o oc_commands]_vars

\* a later gate is declined after an earlier batch ran
C1_Witness ==
    /\ ~non_interactive
    /\ gates["namespaces"] = "a"
    /\ gates["subscriptions"] = "c"
    /\ \E i \in 1..Len(executed) : IsNewProject(executed[i])

----------------------------------------------------------------------------
(* C2.  As claimed: answering 'c' for the OperatorGroup batch or for the   *)
(* subscription batch leaves the cluster and the manifest files as they    *)
(* were before the batch.  The code writes the files before it prompts.    *)

\* C2 as claimed: a declined batch has run no command and written no file
C2_DeclineLeavesNoFile ==
    \A b \in {"operatorgroup", "subscriptions"} :
        gates[b] = "c" =>
            /\ \A i \in 1..Len(executed) : executed[i] \notin Range(planned[b])
            /\ ManifestsOf(b) \cap FileNames(files) = {}

\* C2 as amended: a declined batch has run no command, and its manifest
\* files were written before the prompt and are on disk
C2_DeclineRunsNothingFilesWritten ==
    \A b \in {"operatorgroup", "subscriptions"} :
        /\ gates[b] = "c" =>
              \A i \in 1..Len(executed) : executed[i] \notin Range(planned[b])
        /\ (pc = "gate" /\ batch = b) \/ gates[b] # "-" =>
              /\ ManifestsOf(b) \subseteq FileNames(files)
              /\ \A i \in 1..Len(planned[b]) :
                    planned[b][i].file \in FileNames(files)

\* the subscription batch of two operators was declined
C2_Witness ==
    /\ gates["subscriptions"] = "c"
    /\ Len(planned["subscriptions"]) >= 2
    /\ pc = "exit"

----------------------------------------------------------------------------
(* C7.  An accepted batch (answer 'a', or non-interactive mode) has every  *)
(* one of its commands executed exactly once and in the listed order,      *)
(* whatever the commands exit with; a non-zero exit neither repeats nor    *)
(* skips a command, and the run goes on to the next batch.                 *)

\* C7: what has been executed is exactly the command lists of the accepted
\* batches, batch after batch; the step that executes a batch hands over to
\* the next stage of deploy, the last one to exit code 0, whatever the exit
\* code of the last command
C7_AcceptedBatchRunsToCompletion ==
    /\ [](executed = AcceptedCommands(Batches))
    /\ [][pc = "gate" /\ Accepted(batch)' =>
            /\ executed' = executed \o planned[batch]
            /\ pc' = Return(batch)
            /\ batch = "subscriptions" => exit_code' = 0]_vars

\* a run completed although the last command of the last batch failed
C7_Witness ==
    /\ pc = "exit"
    /\ exit_code = 0
    /\ proc = <<1>>
    /\ Accepted("subscriptions")
    /\ Len(planned["subscriptions"]) >= 2
    /\ Len(executed) >= 4

----------------------------------------------------------------------------
(* C3.  A selection holding a name that is not a key of the resolved map   *)
(* (and is not 'all') makes filter fail with an error naming an unknown    *)
(* operator and leaves the registry as it was, wherever the name stands    *)
(* and also when 'all' is selected beside it.                              *)

UnknownNames == Range(selection) \ (Keys(registry) \cup {"all"})

\* C3: the filter step of a selection with an unknown name ends the run
\* with status 1, the error names an unknown operator, registry unchanged
C3_UnknownNameAlwaysFails ==
    [][(pc = "filter" /\ ~list /\ UnknownNames # {}) =>
          /\ pc' = "exit"
          /\ exit_code' = 1
          /\ error' \in UnknownNames
          /\ registry' = registry]_vars

----------------------------------------------------------------------------
(* C4.  Mutual exclusion: ibm-apiconnect bundles datapower-operator and    *)
(* ibm-eventstreams bundles ibm-eem-operator.                              *)

Bundles ==
    { <<"ibm-apiconnect", "datapower-operator">>,
      <<"ibm-eventstreams", "ibm-eem-operator">> }

\* what the selection selects of the resolved map
SelectedSet ==
    IF "all" \in Range(selection) THEN Keys(registry)
    ELSE Range(selection) \cap Keys(registry)

\* nothing was fetched, planned, executed or written for operator n
NoActionFor(n) ==
    LET theirs == {CatsrcPath(CaseName(n)), SubscriptionFile(n)}
    IN /\ CaseName(n) \notin Range(fetched)
       /\ \A m \in mirror : m.path \notin theirs
       /\ \A b \in Range(Batches) :
             \A i \in 1..Len(planned[b]) : planned[b][i].file \notin theirs
       /\ \A i \in 1..Len(executed) : executed[i].file \notin theirs
       /\ FileNames(files) \cap theirs = {}

\* C4: when a filter step succeeds, A and B both selected leaves A and not
\* B, B selected without A leaves B, nothing but a bundled B is removed;
\* and for the rest of the run an operator that is not in the registry
\* gets no fetch, no catalog-source action and no subscription action
C4_MutualExclusion ==
    /\ [][pc = "filter" /\ pc' = "plan" =>
            /\ \A r \in Bundles :
                  /\ (r[1] \in SelectedSet /\ r[2] \in SelectedSet) =>
                        (r[1] \in Keys(registry') /\ r[2] \notin Keys(registry'))
                  /\ (r[2] \in SelectedSet /\ r[1] \notin SelectedSet) =>
                        r[2] \in Keys(registry')
            /\ Keys(registry') \subseteq SelectedSet
            /\ SelectedSet \ Keys(registry') \subseteq {r[2] : r \in Bundles}]_vars
    /\ [](pc \notin {"populate", "filter"} =>
            \A n \in LiteralNames \ Keys(registry) : NoActionFor(n))

\* both of a pair were selected by name, and the run installed A alone
C4_Witness ==
    /\ selection = <<"datapower-operator", "ibm-apiconnect">>
    /\ pc = "exit"
    /\ exit_code = 0
    /\ KeySeq(registry) = <<"ibm-apiconnect">>
    /\ fetched = <<"ibm-apiconnect">>
    /\ \E i \in 1..Len(executed) :
          executed[i].file = SubscriptionFile("ibm-apiconnect")

----------------------------------------------------------------------------
(* C5.  An operator whose channel was not found gets no subscription file  *)
(* and no 'oc apply' command, and the subscriptions of the other selected  *)
(* operators are still written and offered.                                *)

SubscriptionsOffered ==
    \/ pc = "gate" /\ batch = "subscriptions"
    \/ gates["subscriptions"] # "-"

\* C5: once apply_subscriptions has called run_commands, exactly the
\* operators with a channel have their file and their command
C5_NullChannelSkipped ==
    SubscriptionsOffered =>
        \A i \in 1..Len(registry) :
            LET file == SubscriptionFile(registry[i].literal_name)
                offered ==
                    /\ file \in FileNames(files)
                    /\ \E k \in 1..Len(planned["subscriptions"]) :
                          planned["subscriptions"][k].file = file
                skipped ==
                    /\ file \notin FileNames(files)
                    /\ \A k \in 1..Len(planned["subscriptions"]) :
                          planned["subscriptions"][k].file # file
            IN IF registry[i].channel = NoneVal THEN skipped ELSE offered

----------------------------------------------------------------------------
(* C6.  As claimed: with every batch accepted the cluster actions run in   *)
(* the order namespaces, catalog sources, OperatorGroup, subscriptions.    *)
(* apply_catalog_sources calls handle_namespaces first, which applies the  *)
(* OperatorGroup, so the OperatorGroup comes before the catalog sources.   *)

Kind(c) ==
    CASE IsNewProject(c)         -> "namespace"
      [] IsOperatorGroupApply(c) -> "operatorgroup"
      [] IsCatalogSourceApply(c) -> "catalog_source"
      [] IsSubscriptionApply(c)  -> "subscription"

Position(order, kind) == CHOOSE k \in 1..Len(order) : order[k] = kind

\* the executed commands never step back in the given order of kinds
InOrder(order) ==
    \A i, j \in 1..Len(executed) :
        i < j => Position(order, Kind(executed[i]))
                    <= Position(order, Kind(executed[j]))

AllAccepted == \A b \in Range(Batches) : gates[b] # "c"

Created == {executed[i].ns : i \in {k \in 1..Len(executed) : IsNewProject(executed[k])}}

\* deploy went through the whole pipeline
Completed == pc = "exit" /\ exit_code = 0 /\ ~list

\* the namespaces created are the missing ones of the two, each once; the
\* OperatorGroup is applied only for a target namespace of its own; a
\* completed run has applied every catalog-sources file of the selected
\* operators, the OperatorGroup if any, and every Subscription
ActionsOfTheRun ==
    /\ Created \subseteq {catsrc_ns, target_ns} \ found_ns
    /\ \A i, j \in 1..Len(executed) :
          (i # j /\ IsNewProject(executed[i])) => executed[i] # executed[j]
    /\ \A i \in 1..Len(executed) :
          IsOperatorGroupApply(executed[i]) =>
              /\ target_ns # AllNamespaces
              /\ executed[i] = Apply(target_ns, OperatorGroupFile(target_ns))
    /\ Completed =>
          /\ Created = {catsrc_ns, target_ns} \ found_ns
          /\ target_ns # AllNamespaces =>
                Apply(target_ns, OperatorGroupFile(target_ns)) \in Range(executed)
          /\ \A i \in 1..Len(registry) :
                /\ Apply(target_ns, SubscriptionFile(registry[i].literal_name))
                      \in Range(executed)
                /\ \A k \in 1..Len(registry[i].catsrc_files) :
                      Apply(catsrc_ns, registry[i].catsrc_files[k])
                          \in Range(executed)

\* C6 as claimed: namespaces, catalog sources, OperatorGroup, subscriptions
C6_CatalogSourcesBeforeOperatorGroup ==
    AllAccepted =>
        /\ InOrder(<<"namespace", "catalog_source", "operatorgroup",
                     "subscription">>)
        /\ ActionsOfTheRun

\* C6 as amended: namespaces, OperatorGroup, catalog sources, subscriptions
C6_OperatorGroupBeforeCatalogSources ==
    AllAccepted =>
        /\ InOrder(<<"namespace", "operatorgroup", "catalog_source",
                     "subscription">>)
        /\ ActionsOfTheRun

\* a completed run in which all four kinds of action were accepted and ran
C6_Witness ==
    /\ pc = "exit"
    /\ exit_code = 0
    /\ \A b \in Range(Batches) : gates[b] = "a"
    /\ {Kind(executed[i]) : i \in 1..Len(executed)} =
          {"namespace", "operatorgroup", "catalog_source", "subscription"}
    /\ Cardinality(Created) = 2

----------------------------------------------------------------------------
(* C10.  As claimed: the filtered registry, and with it the fetches, the   *)
(* catalog-source applies and the subscription applies, follow the         *)
(* insertion order of the resolved map whatever the order of the names in  *)
(* the selection.  filter() builds a new dict in the order of the          *)
(* selection.                                                              *)

\* a sequence without the later occurrences of its elements
RECURSIVE FirstOccurrences(_)
FirstOccurrences(s) ==
    IF s = <<>> THEN <<>>
    ELSE LET front == FirstOccurrences(SubSeq(s, 1, Len(s) - 1))
         IN IF s[Len(s)] \in Range(front) THEN front
            ELSE Append(front, s[Len(s)])

RECURSIVE Flatten(_)
Flatten(ss) == IF ss = <<>> THEN <<>> ELSE Head(ss) \o Flatten(Tail(ss))

FilesOf(cmds) == [i \in 1..Len(cmds) |-> cmds[i].file]

\* the later stages go through the operators in the order of the registry
StagesFollowRegistry ==
    /\ fetched \in {<<>>, [i \in 1..Len(registry) |-> registry[i].case_name]}
    /\ Completed =>
          fetched = [i \in 1..Len(registry) |-> registry[i].case_name]
    /\ Accepted("catalog_sources") =>
          FilesOf(SelectSeq(executed, IsCatalogSourceApply)) =
              Flatten([i \in 1..Len(registry) |-> registry[i].catsrc_files])
    /\ Accepted("subscriptions") =>
          FilesOf(SelectSeq(executed, IsSubscriptionApply)) =
              [i \in 1..Len(registry) |->
                  SubscriptionFile(registry[i].literal_name)]

\* C10 as claimed: a successful filter step leaves the operators in the
\* order the resolved map had them, and the later stages follow it
C10_ResolvedOrderKept ==
    /\ [][pc = "filter" /\ pc' = "plan" =>
            KeySeq(registry') =
                SelectSeq(KeySeq(registry),
                          LAMBDA n : n \in Keys(registry'))]_vars
    /\ []StagesFollowRegistry

\* C10 as amended: with 'all' selected the order is that of the resolved
\* map, otherwise it is the order in which the names first occur in the
\* selection; the later stages follow the registry
C10_SelectionOrderKept ==
    /\ [][pc = "filter" /\ pc' = "plan" =>
            KeySeq(registry') =
                SelectSeq(IF "all" \in Range(selection)
                          THEN KeySeq(registry)
                          ELSE FirstOccurrences(selection),
                          LAMBDA n : n \in Keys(registry'))]_vars
    /\ []StagesFollowRegistry

\* two operators were selected against the order of the documentation and
\* installed in the order of the selection
C10_Witness ==
    /\ selection = <<"ibm-mq", "ibm-apiconnect">>
    /\ Completed
    /\ KeySeq(registry) = <<"ibm-mq", "ibm-apiconnect">>
    /\ fetched = <<"ibm-mq", "ibm-apiconnect">>
    /\ FilesOf(SelectSeq(executed, IsCatalogSourceApply)) =
          <<CatsrcPath("ibm-mq"), CatsrcPath("ibm-apiconnect")>>
    /\ FilesOf(SelectSeq(executed, IsSubscriptionApply)) =
          <<SubscriptionFile("ibm-mq"), SubscriptionFile("ibm-apiconnect")>>

----------------------------------------------------------------------------
(* C8.  As claimed: the subscriptions of a fixed list of fragile operators *)
(* are applied after all the others, each group in base order, and no      *)
(* other action is reordered.  The code holds no such list and applies the *)
(* subscriptions in the order of the registry.                             *)

\* the lists the fixed fragile list can be: two of the literal names
FragileLists == {F \in SUBSET LiteralNames : Cardinality(F) = 2}

NamesOf(map) == [i \in 1..Len(map) |-> map[i].literal_name]

\* the subscription files in base order with those of F moved to the end
FragileLast(F) ==
    LET base == NamesOf(registry)
        order == SelectSeq(base, LAMBDA n : n \notin F)
                 \o SelectSeq(base, LAMBDA n : n \in F)
    IN [i \in 1..Len(order) |-> SubscriptionFile(order[i])]

\* namespace, OperatorGroup and catalog-source commands are executed as
\* their batches listed them
OthersNotReordered ==
    \A b \in {"namespaces", "operatorgroup", "catalog_sources"} :
        Accepted(b) =>
            \E i \in 0..Len(executed) :
                SubSeq(executed, i + 1, i + Len(planned[b])) = planned[b]

----------------------------------------------------------------------------
(* C9.  The 'source' of an operator's Subscription is the first of the     *)
(* names collected from the downloaded catalog-sources files that holds    *)
(* one of the operator's search tokens, and the shared default name when   *)
(* none does.  The code takes it from the documented Subscription.         *)

\* the search tokens of a package id: vendor prefix and "operator" dropped
SearchTokens(case) ==
    CASE case = "ibm-apiconnect"              -> {"apiconnect"}
      [] case = "ibm-datapower-operator"      -> {"datapower"}
      [] case = "ibm-eventstreams"            -> {"eventstreams"}
      [] case = "ibm-eventendpointmanagement" -> {"eventendpointmanagement"}
      [] case = "ibm-mq"                      -> {"mq"}

\* a collected name holds a token as a substring
Contains(name, token) ==
    \E n \in LiteralNames :
        /\ name = DeclaredName(CaseName(n))
        /\ token \in SearchTokens(CaseName(n))

\* the names collected from all the downloaded files, in discovery order
PooledNames ==
    Flatten([i \in 1..Len(registry) |->
                IF registry[i].catsrc_files = <<>> THEN <<>>
                ELSE NamesIn(CatsrcLines(registry[i].case_name))])

Matches(op) ==
    {k \in 1..Len(PooledNames) :
        \E t \in SearchTokens(op.case_name) : Contains(PooledNames[k], t)}

\* the source written in the Subscription file of an operator
WrittenSource(op) ==
    (CHOOSE f \in files : f.name = SubscriptionFile(op.literal_name)).content.source

\* C9: an operator with a match is bound to its first match, and the
\* operators without a match are all bound to one and the same name
C9_BoundToFirstMatchOrDefault ==
    SubscriptionsOffered =>
        \A i \in 1..Len(registry) :
            IF Matches(registry[i]) # {}
            THEN WrittenSource(registry[i]) =
                    PooledNames[CHOOSE k \in Matches(registry[i]) :
                                   \A m \in Matches(registry[i]) : k <= m]
            ELSE \A j \in 1..Len(registry) :
                    Matches(registry[j]) = {} =>
                        WrittenSource(registry[j]) = WrittenSource(registry[i])

====
